---- MODULE Spec2Model ----
(***************************************************************************)
(* Model of xtask/src/main.rs, the task runner of the gpt-disk-rs          *)
(* workspace: the feature-matrix driver (test_uguid, test_gpt_disk_types,  *)
(* test_gpt_disk_io, test_all) and the template generator (gen_guids).     *)
(*                                                                         *)
(* A Rust string is modelled as a sequence of lexemes, so that joining,    *)
(* replacing and comparing strings are computed and not assumed.  A file   *)
(* is a record [exists, data]; fs::read_to_string fails exactly on a file  *)
(* that does not exist (missing or unreadable), fs::write creates or       *)
(* truncates the file.  An external command is launched by run_cmd and     *)
(* its outcome is chosen by the environment.                               *)
(***************************************************************************)
EXTENDS Integers, Sequences, FiniteSets, TLC

VARIABLES
    arg,          \* args[1] of the process, or "bogus" for any bad command line
    pc,           \* position of the process
    status,       \* "running", "exit0", "exit1" (exit(1)) or "panic"
    fault,        \* which fatal path ended the process, "none" otherwise
    disp,         \* index of the if-statement main is at (lines 196-206)
    driver,       \* the matrix function being executed
    loop,         \* indices into FEAT_OPTIONS of the nested for loops
    step,         \* index of the run_cmd call inside test_package
    log,          \* the commands handed to run_cmd so far, with their outcome
    fs,           \* the three files of the generator
    old_fs,       \* the file system as it was when the process started
    template,     \* local `template` of gen_guids
    changed,      \* local `changed` of gen_guids
    ops,          \* the file accesses of this process, in order
    run,          \* number of the process run
    prev_status,  \* final status of the previous run
    cmd_in,       \* arguments of a get_cargo_cmd call
    cmd_out       \* the Command it returned

vars == <<arg, pc, status, fault, disp, driver, loop, step, log, fs, old_fs,
          template, changed, ops, run, prev_status, cmd_in, cmd_out>>

(***************************************************************************)
(* Bounds of the model.                                                    *)
(***************************************************************************)
MaxTemplateLen == 1
MaxRuns == 2
MaxFeatures == 3

SeqsUpTo(S, n) == UNION {[1..k -> S] : k \in 0..n}

(***************************************************************************)
(* Constants of the program.                                               *)
(***************************************************************************)
FEAT_OPTIONS == <<FALSE, TRUE>>
FEAT_BYTEMUCK == "bytemuck"
FEAT_SERDE == "serde"
FEAT_STD == "std"

Str(s) == <<s>>

CargoActions == {"Test", "Lint"}

as_str(action) == IF action = "Lint" THEN "clippy" ELSE "test"

(***************************************************************************)
(* features.join(","): the lexemes of the list with a "," between each two *)
(***************************************************************************)
RECURSIVE join(_)
join_NoSeparator(features) ==
    features

join(features) ==
    IF Len(features) <= 1 THEN features
    ELSE <<Head(features), ",">> \o join(Tail(features))

get_cargo_cmd(action, package, features) ==
    [program |-> "cargo",
     args |-> <<Str(as_str(action)), Str("--package"), Str(package)>>
              \o (IF features # <<>>
                  THEN <<Str("--features"), join(features)>>
                  ELSE <<>>)
              \o (IF action = "Lint"
                  THEN <<Str("--"), Str("-D"), Str("warnings")>>
                  ELSE <<>>)]

(***************************************************************************)
(* test_package: the two run_cmd calls, in order.                          *)
(***************************************************************************)
test_package_SwappedOrder == <<"Test", "Lint">>

test_package == <<"Lint", "Test">>

(***************************************************************************)
(* run_cmd panics ("failed to launch" / "command failed") unless the       *)
(* command was launched and returned success.                              *)
(***************************************************************************)
Outcomes == {"ok", "launch_failed", "nonzero"}

run_cmd_panics_LaunchOnly(outcome) == outcome = "launch_failed"

run_cmd_panics(outcome) == outcome = "launch_failed" \/ outcome = "nonzero"

(***************************************************************************)
(* The matrix functions: flags of the nested loops (outermost first) and   *)
(* the package name each passes to test_package.                           *)
(***************************************************************************)
Drivers == {"test_uguid", "test_gpt_disk_types", "test_gpt_disk_io"}

DriverFlags_NoSerde(d) ==
    CASE d = "test_uguid" -> <<FEAT_BYTEMUCK, FEAT_STD>>
      [] d = "test_gpt_disk_types" -> <<FEAT_BYTEMUCK, FEAT_STD>>
      [] d = "test_gpt_disk_io" -> <<"std">>

DriverFlags(d) ==
    CASE d = "test_uguid" -> <<FEAT_BYTEMUCK, FEAT_SERDE, FEAT_STD>>
      [] d = "test_gpt_disk_types" -> <<FEAT_BYTEMUCK, FEAT_STD>>
      [] d = "test_gpt_disk_io" -> <<"std">>

DriverPackage(d) ==
    CASE d = "test_uguid" -> "uguid"
      [] d = "test_gpt_disk_types" -> "gpt_disk_types"
      [] d = "test_gpt_disk_io" -> "gpt_disk_types"

\* `let mut features = Vec::new(); if feat_x { features.push(X) } ...`
RECURSIVE PushFeatures(_, _)
PushFeatures(flags, lp) ==
    IF flags = <<>> THEN <<>>
    ELSE (IF FEAT_OPTIONS[Head(lp)] THEN <<Head(flags)>> ELSE <<>>)
         \o PushFeatures(Tail(flags), Tail(lp))

LoopStart(d) == [i \in 1..Len(DriverFlags(d)) |-> 1]

LoopDone(lp) == \A i \in DOMAIN lp : lp[i] = Len(FEAT_OPTIONS)

\* the next iteration of the nested for loops: the innermost varies fastest
RECURSIVE LoopAdvance(_)
LoopAdvance(lp) ==
    LET n == Len(lp) IN
    IF lp[n] < Len(FEAT_OPTIONS) THEN [lp EXCEPT ![n] = lp[n] + 1]
    ELSE Append(LoopAdvance(SubSeq(lp, 1, n - 1)), 1)

(***************************************************************************)
(* main: the accepted actions and the order of its if-statements.          *)
(***************************************************************************)
actions == <<"test_all", "test_uguid", "test_gpt_disk_types",
             "test_gpt_disk_io", "gen_guids">>

Args == {actions[i] : i \in DOMAIN actions} \cup {"bogus"}

MainOrder == <<"test_uguid", "test_gpt_disk_types", "test_gpt_disk_io",
               "gen_guids">>

BranchTaken(a, target) ==
    IF target = "gen_guids" THEN a = "gen_guids"
    ELSE a = "test_all" \/ a = target

(***************************************************************************)
(* The generator.                                                          *)
(***************************************************************************)
template_path == "uguid/src/guid_template.rs"
aligned_path == "uguid/src/aligned_guid.rs"
unaligned_path == "uguid/src/unaligned_guid.rs"
Paths == {template_path, aligned_path, unaligned_path}

aligned_replacements ==
    [name |-> "AlignedGuid", repr |-> "C, align(8)", other |-> "Guid",
     doc |-> "Globally-unique identifier (8-byte aligned)."]

unaligned_replacements ==
    [name |-> "Guid", repr |-> "C", other |-> "AlignedGuid",
     doc |-> "Globally-unique identifier (1-byte aligned)."]

\* str::replace on lexemes
replace(s, from, to) == [i \in DOMAIN s |-> IF s[i] = from THEN to ELSE s[i]]

gen_code(t, r) ==
    <<"// This file is autogenerated, do not edit.", "\n", "\n">>
    \o replace(replace(replace(replace(t,
           "VAR_STRUCT_NAME", r.name),
           "VAR_STRUCT_REPR", r.repr),
           "VAR_OTHER_STRUCT_NAME", r.other),
           "VAR_STRUCT_DOC", r.doc)

NoFile == [exists |-> FALSE, data |-> <<>>]
File(data) == [exists |-> TRUE, data |-> data]

\* Result<String>: ok is false when the file is missing or unreadable
read_to_string_OrDefault(fsys, path) ==
    [ok |-> TRUE, data |-> fsys[path].data]

read_to_string(fsys, path) ==
    [ok |-> fsys[path].exists, data |-> fsys[path].data]

write_NoOp(fsys, path, data) == fsys

write(fsys, path, data) == [fsys EXCEPT ![path] = File(data)]

\* the statements of gen_guids that touch the outside world, in order
GenOrder_WriteBeforeSecondRead ==
    <<"gen_read_template", "gen_read_aligned", "gen_write_aligned",
      "gen_read_unaligned", "gen_write_unaligned", "gen_exit">>

GenOrder ==
    <<"gen_read_template", "gen_read_aligned", "gen_read_unaligned",
      "gen_write_aligned", "gen_write_unaligned", "gen_exit">>

AfterStmt(p) ==
    LET i == CHOOSE j \in DOMAIN GenOrder : GenOrder[j] = p IN GenOrder[i + 1]

\* `lhs || rhs`: the right operand is evaluated only when the left is false
EvalRhs_Eager(lhs) == TRUE

EvalRhs(lhs) == ~lhs

\* `if changed { exit(1); }`
ExitsOnDrift_Never(chg) == FALSE

ExitsOnDrift(chg) == chg

(***************************************************************************)
(* Initial states.                                                         *)
(***************************************************************************)
Tokens == {"VAR_STRUCT_NAME", "VAR_STRUCT_REPR", "VAR_OTHER_STRUCT_NAME",
           "VAR_STRUCT_DOC", "text"}

Templates == SeqsUpTo(Tokens, MaxTemplateLen)

Replacements(path) ==
    IF path = aligned_path THEN aligned_replacements
    ELSE unaligned_replacements

\* a target file is missing, or was generated from some version of the template
TargetStates(path) ==
    {NoFile} \cup {File(gen_code(t, Replacements(path))) : t \in Templates}

TemplateStates == {NoFile} \cup {File(t) : t \in Templates}

FileSystems ==
    {[p \in Paths |-> IF p = template_path THEN t
                      ELSE IF p = aligned_path THEN a ELSE u] :
        t \in TemplateStates,
        a \in TargetStates(aligned_path),
        u \in TargetStates(unaligned_path)}

NoFiles == [p \in Paths |-> NoFile]

NoCommand == [program |-> "", args |-> <<>>]
NoInput == [action |-> "Test", package |-> "", features |-> <<>>]

Init ==
    /\ arg \in Args
    /\ pc = "start"
    /\ status = "running"
    /\ fault = "none"
    /\ disp = 1
    /\ driver = "none"
    /\ loop = <<>>
    /\ step = 1
    /\ log = <<>>
    \* only gen_guids touches the files
    /\ fs \in IF arg = "gen_guids" THEN FileSystems ELSE {NoFiles}
    /\ old_fs = fs
    /\ template = <<>>
    /\ changed = FALSE
    /\ ops = <<>>
    /\ run = 1
    /\ prev_status = "none"
    /\ cmd_in = NoInput
    /\ cmd_out = NoCommand

Panic(why) ==
    /\ pc' = "done"
    /\ status' = "panic"
    /\ fault' = why

(***************************************************************************)
(* main                                                                    *)
(***************************************************************************)
\* lines 190-193: wrong argument count or unknown action
Usage ==
    /\ pc = "start"
    /\ arg \notin {actions[i] : i \in DOMAIN actions}
    /\ pc' = "done"
    /\ status' = "exit1"
    /\ fault' = "usage"
    /\ UNCHANGED <<arg, disp, driver, loop, step, log, fs, old_fs, template,
                   changed, ops, run, prev_status, cmd_in, cmd_out>>

ArgsOk ==
    /\ pc = "start"
    /\ arg \in {actions[i] : i \in DOMAIN actions}
    /\ pc' = "main"
    /\ UNCHANGED <<arg, status, fault, disp, driver, loop, step, log, fs,
                   old_fs, template, changed, ops, run, prev_status, cmd_in,
                   cmd_out>>

\* an if-statement of main whose condition is false
SkipBranch ==
    /\ pc = "main"
    /\ disp <= Len(MainOrder)
    /\ ~BranchTaken(arg, MainOrder[disp])
    /\ disp' = disp + 1
    /\ UNCHANGED <<arg, pc, status, fault, driver, loop, step, log, fs, old_fs,
                   template, changed, ops, run, prev_status, cmd_in, cmd_out>>

\* lines 196-204: call of test_uguid, test_gpt_disk_types or test_gpt_disk_io
EnterMatrix ==
    /\ pc = "main"
    /\ disp <= Len(MainOrder)
    /\ MainOrder[disp] \in Drivers
    /\ BranchTaken(arg, MainOrder[disp])
    /\ driver' = MainOrder[disp]
    /\ loop' = LoopStart(MainOrder[disp])
    /\ step' = 1
    /\ pc' = "run_cmd"
    /\ UNCHANGED <<arg, status, fault, disp, log, fs, old_fs, template,
                   changed, ops, run, prev_status, cmd_in, cmd_out>>

\* lines 205-206: call of gen_guids
EnterGen ==
    /\ pc = "main"
    /\ disp <= Len(MainOrder)
    /\ MainOrder[disp] = "gen_guids"
    /\ BranchTaken(arg, MainOrder[disp])
    /\ pc' = GenOrder[1]
    /\ UNCHANGED <<arg, status, fault, disp, driver, loop, step, log, fs,
                   old_fs, template, changed, ops, run, prev_status, cmd_in,
                   cmd_out>>

\* main returns: exit status 0
MainReturn ==
    /\ pc = "main"
    /\ disp > Len(MainOrder)
    /\ pc' = "done"
    /\ status' = "exit0"
    /\ UNCHANGED <<arg, fault, disp, driver, loop, step, log, fs, old_fs,
                   template, changed, ops, run, prev_status, cmd_in, cmd_out>>

(***************************************************************************)
(* One run_cmd call of test_package, inside the loops of the driver.       *)
(***************************************************************************)
RunCmd ==
    /\ pc = "run_cmd"
    /\ LET features == PushFeatures(DriverFlags(driver), loop)
           cmd == get_cargo_cmd(test_package[step], DriverPackage(driver),
                                features)
       IN \E outcome \in Outcomes :
            /\ log' = Append(log, [driver |-> driver, cmd |-> cmd,
                                   result |-> outcome])
            /\ IF run_cmd_panics(outcome)
               THEN /\ Panic(IF outcome = "launch_failed"
                             THEN "failed to launch" ELSE "command failed")
                    /\ UNCHANGED <<disp, driver, loop, step>>
               ELSE /\ UNCHANGED <<status, fault>>
                    /\ IF step < Len(test_package)
                       THEN /\ step' = step + 1
                            /\ UNCHANGED <<pc, disp, driver, loop>>
                       ELSE IF LoopDone(loop)
                       THEN /\ pc' = "main"
                            /\ disp' = disp + 1
                            /\ UNCHANGED <<driver, loop, step>>
                       ELSE /\ loop' = LoopAdvance(loop)
                            /\ step' = 1
                            /\ UNCHANGED <<pc, disp, driver>>
    /\ UNCHANGED <<arg, fs, old_fs, template, changed, ops, run, prev_status,
                   cmd_in, cmd_out>>

(***************************************************************************)
(* gen_guids                                                               *)
(***************************************************************************)
Access(op, path, ok) == [op |-> op, path |-> path, ok |-> ok]

\* line 113
GenReadTemplate ==
    /\ pc = "gen_read_template"
    /\ LET res == read_to_string(fs, template_path) IN
        /\ ops' = Append(ops, Access("read", template_path, res.ok))
        /\ IF res.ok
           THEN /\ template' = res.data
                /\ pc' = AfterStmt(pc)
                /\ UNCHANGED <<status, fault>>
           ELSE /\ Panic("read_template")
                /\ UNCHANGED template
    /\ UNCHANGED <<arg, disp, driver, loop, step, log, fs, old_fs, changed,
                   run, prev_status, cmd_in, cmd_out>>

\* line 163: left operand of ||
GenReadAligned ==
    /\ pc = "gen_read_aligned"
    /\ LET res == read_to_string(fs, aligned_path) IN
        /\ ops' = Append(ops, Access("read", aligned_path, res.ok))
        /\ IF res.ok
           THEN /\ changed' = (res.data # gen_code(template, aligned_replacements))
                /\ pc' = AfterStmt(pc)
                /\ UNCHANGED <<status, fault>>
           ELSE /\ Panic("read_aligned")
                /\ UNCHANGED changed
    /\ UNCHANGED <<arg, disp, driver, loop, step, log, fs, old_fs, template,
                   run, prev_status, cmd_in, cmd_out>>

\* line 164: right operand of ||
GenReadUnaligned ==
    /\ pc = "gen_read_unaligned"
    /\ IF EvalRhs(changed)
       THEN LET res == read_to_string(fs, unaligned_path) IN
            /\ ops' = Append(ops, Access("read", unaligned_path, res.ok))
            /\ IF res.ok
               THEN /\ changed' = (changed \/
                            res.data # gen_code(template, unaligned_replacements))
                    /\ pc' = AfterStmt(pc)
                    /\ UNCHANGED <<status, fault>>
               ELSE /\ Panic("read_unaligned")
                    /\ UNCHANGED changed
       ELSE /\ pc' = AfterStmt(pc)
            /\ UNCHANGED <<status, fault, changed, ops>>
    /\ UNCHANGED <<arg, disp, driver, loop, step, log, fs, old_fs, template,
                   run, prev_status, cmd_in, cmd_out>>

\* line 166
GenWriteAligned ==
    /\ pc = "gen_write_aligned"
    /\ fs' = write(fs, aligned_path, gen_code(template, aligned_replacements))
    /\ ops' = Append(ops, Access("write", aligned_path, TRUE))
    /\ pc' = AfterStmt(pc)
    /\ UNCHANGED <<arg, status, fault, disp, driver, loop, step, log, old_fs,
                   template, changed, run, prev_status, cmd_in, cmd_out>>

\* line 167
GenWriteUnaligned ==
    /\ pc = "gen_write_unaligned"
    /\ fs' = write(fs, unaligned_path,
                   gen_code(template, unaligned_replacements))
    /\ ops' = Append(ops, Access("write", unaligned_path, TRUE))
    /\ pc' = AfterStmt(pc)
    /\ UNCHANGED <<arg, status, fault, disp, driver, loop, step, log, old_fs,
                   template, changed, run, prev_status, cmd_in, cmd_out>>

\* lines 171-173
GenExit ==
    /\ pc = "gen_exit"
    /\ IF ExitsOnDrift(changed)
       THEN /\ pc' = "done"
            /\ status' = "exit1"
            /\ fault' = "drift"
            /\ UNCHANGED disp
       ELSE /\ pc' = "main"
            /\ disp' = disp + 1
            /\ UNCHANGED <<status, fault>>
    /\ UNCHANGED <<arg, driver, loop, step, log, fs, old_fs, template, changed,
                   ops, run, prev_status, cmd_in, cmd_out>>

(***************************************************************************)
(* The generator is run again, on the files the previous run left.         *)
(***************************************************************************)
Rerun ==
    /\ pc = "done"
    /\ arg = "gen_guids"
    /\ run < MaxRuns
    /\ run' = run + 1
    /\ prev_status' = status
    /\ old_fs' = fs
    /\ pc' = "start"
    /\ status' = "running"
    /\ fault' = "none"
    /\ disp' = 1
    /\ template' = <<>>
    /\ changed' = FALSE
    /\ ops' = <<>>
    /\ UNCHANGED <<arg, driver, loop, step, log, fs, cmd_in, cmd_out>>

Next ==
    \/ Usage
    \/ ArgsOk
    \/ SkipBranch
    \/ EnterMatrix
    \/ EnterGen
    \/ MainReturn
    \/ RunCmd
    \/ GenReadTemplate
    \/ GenReadAligned
    \/ GenReadUnaligned
    \/ GenWriteAligned
    \/ GenWriteUnaligned
    \/ GenExit
    \/ Rerun

Spec == Init /\ [][Next]_vars

(***************************************************************************)
(* get_cargo_cmd on its own: any action, package and feature list.         *)
(***************************************************************************)
Packages == {"uguid", "gpt_disk_types", "gpt_disk_io"}
FlagNames == {FEAT_BYTEMUCK, FEAT_SERDE, FEAT_STD}

InitCmd ==
    /\ arg = "bogus"
    /\ pc = "get_cargo_cmd"
    /\ status = "running"
    /\ fault = "none"
    /\ disp = 1
    /\ driver = "none"
    /\ loop = <<>>
    /\ step = 1
    /\ log = <<>>
    /\ fs = NoFiles
    /\ old_fs = fs
    /\ template = <<>>
    /\ changed = FALSE
    /\ ops = <<>>
    /\ run = 1
    /\ prev_status = "none"
    /\ cmd_in \in [action : CargoActions, package : Packages,
                   features : SeqsUpTo(FlagNames, MaxFeatures)]
    /\ cmd_out = NoCommand

BuildCmd ==
    /\ pc = "get_cargo_cmd"
    /\ cmd_out' = get_cargo_cmd(cmd_in.action, cmd_in.package, cmd_in.features)
    /\ pc' = "returned"
    /\ UNCHANGED <<arg, status, fault, disp, driver, loop, step, log, fs,
                   old_fs, template, changed, ops, run, prev_status, cmd_in>>

NextCmd == BuildCmd

SpecCmd == InitCmd /\ [][NextCmd]_vars

(***************************************************************************)
(* Reading a logged command back.                                          *)
(***************************************************************************)
IsGen == arg = "gen_guids"

Subcommand(c) == c.args[1][1]

PackageArgs(c) == {c.args[i + 1][1] : i \in {j \in 1..(Len(c.args) - 1) :
                                                 c.args[j] = Str("--package")}}

HasFeatures(c) == \E i \in DOMAIN c.args : c.args[i] = Str("--features")

\* the flags named by the --features argument, {} when there is none
FlagSetOf(c) ==
    IF Len(c.args) >= 5 /\ c.args[4] = Str("--features")
    THEN {c.args[5][j] : j \in {k \in DOMAIN c.args[5] : k % 2 = 1}}
    ELSE {}

\* what follows the subcommand, without the trailing arguments of clippy
Target(c) ==
    IF Subcommand(c) = "clippy" THEN SubSeq(c.args, 2, Len(c.args) - 3)
    ELSE Tail(c.args)

IssuedBy(d) == {i \in DOMAIN log : log[i].driver = d}

\* the package each action is named after
NamedPackage(d) ==
    CASE d = "test_uguid" -> "uguid"
      [] d = "test_gpt_disk_types" -> "gpt_disk_types"
      [] d = "test_gpt_disk_io" -> "gpt_disk_io"

\* the flags each package declares
DeclaredFlags(d) ==
    CASE d = "test_uguid" -> {"bytemuck", "serde", "std"}
      [] d = "test_gpt_disk_types" -> {"bytemuck", "std"}
      [] d = "test_gpt_disk_io" -> {"std"}

RECURSIVE Pow2(_)
Pow2(k) == IF k = 0 THEN 1 ELSE 2 * Pow2(k - 1)

\* the packages of the log in order of first appearance
RECURSIVE PackageOrder(_)
PackageOrder(l) ==
    IF l = <<>> THEN <<>>
    ELSE LET rest == PackageOrder(SubSeq(l, 1, Len(l) - 1))
             p == l[Len(l)].cmd.args[3][1]
         IN IF \E i \in DOMAIN rest : rest[i] = p THEN rest ELSE Append(rest, p)

FreshAligned == gen_code(old_fs[template_path].data, aligned_replacements)
FreshUnaligned == gen_code(old_fs[template_path].data, unaligned_replacements)

Reads(path) == {i \in DOMAIN ops : ops[i].op = "read" /\ ops[i].path = path}
Writes(path) == {i \in DOMAIN ops : ops[i].op = "write" /\ ops[i].path = path}

(***************************************************************************)
(* C1: every command issued by test_P names package P and no other, and    *)
(* test_all issues commands for uguid, gpt_disk_types and gpt_disk_io, in  *)
(* that order.                                                             *)
(***************************************************************************)
C1_EachActionNamesItsPackage ==
    /\ \A i \in DOMAIN log :
          PackageArgs(log[i].cmd) = {NamedPackage(log[i].driver)}
    /\ (arg = "test_all" /\ status = "exit0") =>
          PackageOrder(log) = <<"uguid", "gpt_disk_types", "gpt_disk_io">>

(***************************************************************************)
(* C2: when every command succeeds, a matrix function over k flags issues  *)
(* 2 * 2^k commands: for every assignment of its flags exactly one clippy  *)
(* and exactly one test command with that feature set.                     *)
(***************************************************************************)
C2_MatrixIsExhaustive ==
    \A d \in Drivers :
        (status = "exit0" /\ arg \in {d, "test_all"}) =>
            /\ Cardinality(IssuedBy(d)) = 2 * Pow2(Cardinality(DeclaredFlags(d)))
            /\ \A S \in SUBSET DeclaredFlags(d) :
               \A sub \in {"clippy", "test"} :
                  Cardinality({i \in IssuedBy(d) :
                                  /\ Subcommand(log[i].cmd) = sub
                                  /\ FlagSetOf(log[i].cmd) = S}) = 1

C2_Witness ==
    /\ arg = "test_all"
    /\ status = "exit0"
    /\ \E i \in IssuedBy("test_uguid") :
          FlagSetOf(log[i].cmd) = {"bytemuck", "serde", "std"}
    /\ \E i \in IssuedBy("test_gpt_disk_io") : FlagSetOf(log[i].cmd) = {"std"}

(***************************************************************************)
(* C3: a command that fails to launch or returns a non-success status is   *)
(* the last command issued, and the process has aborted.                   *)
(***************************************************************************)
C3_FailureAborts ==
    \A i \in DOMAIN log :
        log[i].result # "ok" =>
            /\ i = Len(log)
            /\ pc = "done"
            /\ status = "panic"

C3_Witness ==
    /\ arg = "test_all"
    /\ Len(log) = 3
    /\ log[3].result = "nonzero"
    /\ log[3].driver = "test_uguid"
    /\ pc = "done"

(***************************************************************************)
(* C4: the commands come in pairs: a clippy command, then, only after it   *)
(* succeeded, the test command for the same package and feature list.      *)
(***************************************************************************)
C4_LintThenTest ==
    \A i \in DOMAIN log :
        /\ i % 2 = 1 => Subcommand(log[i].cmd) = "clippy"
        /\ i % 2 = 0 =>
              /\ Subcommand(log[i].cmd) = "test"
              /\ Subcommand(log[i - 1].cmd) = "clippy"
              /\ log[i - 1].result = "ok"
              /\ Target(log[i].cmd) = Target(log[i - 1].cmd)
        /\ (Subcommand(log[i].cmd) = "clippy" /\ i < Len(log)) =>
              Subcommand(log[i + 1].cmd) = "test"

C4_Witness ==
    /\ Len(log) >= 4
    /\ FlagSetOf(log[4].cmd) # {}
    /\ Subcommand(log[4].cmd) = "test"

(***************************************************************************)
(* C5: get_cargo_cmd returns [subcommand, --package, name], then           *)
(* [--features, the flags joined by commas in order] iff the feature list  *)
(* is not empty, then [--, -D, warnings] iff the action is Lint.           *)
(***************************************************************************)
C5_CommandShape ==
    pc = "returned" =>
        LET a == cmd_out.args
            f == cmd_in.features
            n == Len(f)
            m == IF n > 0 THEN 5 ELSE 3
        IN /\ cmd_out.program = "cargo"
           /\ Len(a) = m + (IF cmd_in.action = "Lint" THEN 3 ELSE 0)
           /\ a[1] = (IF cmd_in.action = "Lint" THEN <<"clippy">> ELSE <<"test">>)
           /\ a[2] = <<"--package">>
           /\ a[3] = <<cmd_in.package>>
           /\ n > 0 =>
                 /\ a[4] = <<"--features">>
                 /\ Len(a[5]) = 2 * n - 1
                 /\ \A i \in 1..n : a[5][2 * i - 1] = f[i]
                 /\ \A i \in 1..(n - 1) : a[5][2 * i] = ","
           /\ n = 0 => ~HasFeatures(cmd_out)
           /\ cmd_in.action = "Lint" =>
                 SubSeq(a, m + 1, m + 3) = <<<<"--">>, <<"-D">>, <<"warnings">>>>
           /\ cmd_in.action = "Test" =>
                 \A i \in DOMAIN a : a[i] \notin {<<"--">>, <<"-D">>, <<"warnings">>}

C5_Witness ==
    /\ pc = "returned"
    /\ cmd_in.action = "Lint"
    /\ cmd_in.features = <<"bytemuck", "std">>
    /\ Len(cmd_out.args) = 8

C7_WritesThenStable ==
    /\ (IsGen /\ pc = "done" /\ status \in {"exit0", "exit1"}) =>
          /\ fs[aligned_path] = File(FreshAligned)
          /\ fs[unaligned_path] = File(FreshUnaligned)
          /\ fs[template_path] = old_fs[template_path]
    /\ (IsGen /\ pc = "done" /\ run > 1 /\ prev_status \in {"exit0", "exit1"}) =>
          /\ status = "exit0"
          /\ changed = FALSE
          /\ fs = old_fs

C7_Witness ==
    /\ IsGen
    /\ pc = "done"
    /\ run = 2
    /\ prev_status = "exit1"
    /\ status = "exit0"
    /\ Writes(aligned_path) # {}

(***************************************************************************)
(* C8: when the read of the unaligned target file fails, the run aborts    *)
(* with the aligned target file already overwritten with its render and    *)
(* the unaligned one untouched.                                            *)
(***************************************************************************)
C8_FirstFileOverwrittenAtAbort ==
    fault = "read_unaligned" =>
        /\ Writes(aligned_path) # {}
        /\ fs[aligned_path] = File(FreshAligned)
        /\ fs[unaligned_path] = old_fs[unaligned_path]

(***************************************************************************)
(* C8 as amended: when the read of the unaligned target file fails, the    *)
(* run aborts before any write: no file has been written and every file    *)
(* has the content it had before the run.                                  *)
(***************************************************************************)
C8_NothingWrittenAtAbort ==
    fault = "read_unaligned" =>
        /\ status = "panic"
        /\ \A p \in Paths : Writes(p) = {}
        /\ fs = old_fs

C8_Witness ==
    /\ fault = "read_unaligned"
    /\ pc = "done"
    /\ ~old_fs[unaligned_path].exists
    /\ Reads(unaligned_path) # {}

(***************************************************************************)
(* C9: when the template cannot be read, the generator aborts without      *)
(* reading or writing a target file: both keep their content, and the      *)
(* process ends by the fatal abort, not by the drift exit.                 *)
(***************************************************************************)
C9_MissingTemplateTouchesNothing ==
    (IsGen /\ ~old_fs[template_path].exists) =>
        /\ fs = old_fs
        /\ \A i \in DOMAIN ops : ops[i].path = template_path
        /\ pc \notin {"gen_read_aligned", "gen_read_unaligned",
                      "gen_write_aligned", "gen_write_unaligned", "gen_exit"}
        /\ pc = "done" => (status = "panic" /\ fault = "read_template")

C9_Witness ==
    /\ IsGen
    /\ ~old_fs[template_path].exists
    /\ old_fs[aligned_path].exists
    /\ pc = "done"
    /\ fault = "read_template"

====
